---- MODULE Spec2Model ----
(***************************************************************************)
(* A model of dm-parser-sqllog: the timestamp matcher and keyword          *)
(* validator of dm-database-parser/src/tools.rs and the record scanner and *)
(* field extractor of dm-database-parser/src/parser.rs.                    *)
(*                                                                         *)
(* A text (&str) is a sequence of bytes 0..255 that is valid UTF-8; byte   *)
(* offsets are 0-based as in the source, so s[i] of the source is          *)
(* At(s, i) here and &s[a..b] is Slice(s, a, b).  An Option is a sequence  *)
(* of length 0 (None) or 1 (Some).  A yielded &str that borrows from the   *)
(* buffer is the pair of its offsets in the buffer.                        *)
(***************************************************************************)
EXTENDS Integers, Sequences, FiniteSets, TLC

VARIABLES
    text,       \* RecordSplitter.text / the buffer handed to the functions
    npieces,    \* how many pieces the buffer was built from
    pc,         \* "input" while the buffer is built, then the call made
    splitter,   \* the RecordSplitter's fields n, scan_pos, next_start, finished, first_start
    yielded,    \* the spans returned by next() so far, in order
    last,       \* what the last next() call returned
    panicked,   \* a slice or index of the scanner was out of bounds or off a boundary
    result,     \* what the function called returned
    shape,      \* how a structured input (a line, a record) was put together
    AC,         \* the static Lazy automaton: its once-cell state and the value in its slot
    threads,    \* per thread: where it is in a call that uses AC, and what it read
    LOG_GUARD,  \* logging.rs: the Option<WorkerGuard> inside the static Mutex
    global_default  \* tracing's global default subscriber, once set

vars == <<text, npieces, pc, splitter, yielded, last, panicked, result, shape, AC, threads,
          LOG_GUARD, global_default>>

---------------------------------------------------------------------------
(* Option, slices, bytes *)

None == <<>>

Some(x) == <<x>>

is_some(o) == Len(o) = 1

unwrap(o) == o[1]

unwrap_or(o, d) == IF Len(o) = 1 THEN o[1] ELSE d

At(s, i) == s[i + 1]

Slice(s, a, b) == SubSeq(s, a + 1, b)

\* usize::saturating_sub
saturating_sub(a, b) == IF a >= b THEN a - b ELSE 0

\* u8::is_ascii_digit: b'0'..=b'9'
is_ascii_digit(b) == b >= 48 /\ b <= 57

\* str::is_char_boundary: 0 and len are boundaries, an offset inside is one
\* unless its byte is a UTF-8 continuation byte 0x80..0xBF
is_char_boundary(s, i) ==
    IF i = 0 THEN TRUE
    ELSE IF i >= Len(s) THEN i = Len(s)
    ELSE At(s, i) < 128 \/ At(s, i) >= 192

\* &s[a..b] on a str succeeds iff a <= b <= len and both are char boundaries
str_slice_ok(s, a, b) ==
    a <= b /\ b <= Len(s) /\ is_char_boundary(s, a) /\ is_char_boundary(s, b)

\* &bytes[a..b] on a byte slice succeeds iff a <= b <= len
bytes_slice_ok(s, a, b) == a <= b /\ b <= Len(s)

starts_with(s, p) == Len(s) >= Len(p) /\ SubSeq(s, 1, Len(p)) = p

\* the offsets in from..to where pat occurs in s
occurrences(s, pat, from, to) == {q \in from..to : Slice(s, q, q + Len(pat)) = pat}

\* str::find of a pattern: the first offset >= from where pat occurs, as an Option
find_from(s, pat, from) ==
    LET S == occurrences(s, pat, from, Len(s) - Len(pat)) IN
    IF S = {} THEN None ELSE Some(CHOOSE q \in S : \A r \in S : q <= r)

find(s, pat) == find_from(s, pat, 0)

\* str::rfind of a pattern: the last offset <= from where pat occurs, as an Option
rfind_from(s, pat, from) ==
    LET S == occurrences(s, pat, 0, from) IN
    IF S = {} THEN None ELSE Some(CHOOSE q \in S : \A r \in S : q >= r)

\* rfind that returns the first occurrence
rfind_finds_first(s, pat) == find(s, pat)

\* str::rfind
rfind(s, pat) == rfind_from(s, pat, Len(s) - Len(pat))

---------------------------------------------------------------------------
(* tools.rs: the timestamp matcher *)

DigitIndexes == {0, 1, 2, 3, 5, 6, 8, 9, 11, 12, 14, 15, 17, 18, 20, 21, 22}

is_ts_millis_bytes(bytes) ==
    IF Len(bytes) /= 23 THEN FALSE
    ELSE IF \/ At(bytes, 4) /= 45
            \/ At(bytes, 7) /= 45
            \/ At(bytes, 10) /= 32
            \/ At(bytes, 13) /= 58
            \/ At(bytes, 16) /= 58
            \/ At(bytes, 19) /= 46
         THEN FALSE
    ELSE \A i \in DigitIndexes : is_ascii_digit(At(bytes, i))

\* is_ts_millis without its test of byte 19
is_ts_millis_no_dot_test(s) ==
    IF Len(s) /= 23 THEN FALSE
    ELSE IF \/ At(s, 4) /= 45
            \/ At(s, 7) /= 45
            \/ At(s, 10) /= 32
            \/ At(s, 13) /= 58
            \/ At(s, 16) /= 58
         THEN FALSE
    ELSE \A i \in DigitIndexes : is_ascii_digit(At(s, i))

is_ts_millis(s) ==
    IF Len(s) /= 23 THEN FALSE
    ELSE IF \/ At(s, 4) /= 45
            \/ At(s, 7) /= 45
            \/ At(s, 10) /= 32
            \/ At(s, 13) /= 58
            \/ At(s, 16) /= 58
            \/ At(s, 19) /= 46
         THEN FALSE
    ELSE \A i \in DigitIndexes : is_ascii_digit(At(s, i))

---------------------------------------------------------------------------
(* tools.rs: the keyword validator *)

PATTERNS == <<
    <<69, 80, 91>>,                             \* "EP["
    <<115, 101, 115, 115, 58>>,                 \* "sess:"
    <<116, 104, 114, 100, 58>>,                 \* "thrd:"
    <<117, 115, 101, 114, 58>>,                 \* "user:"
    <<116, 114, 120, 105, 100, 58>>,            \* "trxid:"
    <<115, 116, 109, 116, 58>>,                 \* "stmt:"
    <<97, 112, 112, 110, 97, 109, 101, 58>>     \* "appname:"
>>

\* the bytes a pattern can end with
PatternLastBytes == {PATTERNS[k][Len(PATTERNS[k])] : k \in DOMAIN PATTERNS}

\* the patterns (by 0-based id) that end at offset e of hay and start at or after from
ac_ending_at(hay, from, e) ==
    IF At(hay, e - 1) \notin PatternLastBytes THEN {}
    ELSE {id \in 0..(Len(PATTERNS) - 1) :
            LET pat == PATTERNS[id + 1] IN
            e - Len(pat) >= from /\ Slice(hay, e - Len(pat), e) = pat}

\* AC.find_iter: the non-overlapping matches of the automaton, left to right.
\* A match is reported at the first offset where a pattern ends and the search
\* resumes after it; of several patterns ending there the longest is reported
\* (no pattern of PATTERNS is a suffix of another).
RECURSIVE ac_find_iter(_, _, _)
ac_find_iter(hay, from, e) ==
    IF e > Len(hay) THEN <<>>
    ELSE LET ids == ac_ending_at(hay, from, e) IN
         IF ids = {} THEN ac_find_iter(hay, from, e + 1)
         ELSE LET id == CHOOSE x \in ids :
                            \A y \in ids : Len(PATTERNS[x + 1]) >= Len(PATTERNS[y + 1])
              IN <<[start |-> e - Len(PATTERNS[id + 1]), value |-> id]>>
                 \o ac_find_iter(hay, e, e + 1)

\* the loop over the matches: first_pos[id] is set by the first match of id
RECURSIVE record_first_pos(_, _, _)
record_first_pos(matches, i, first_pos) ==
    IF i > Len(matches) THEN first_pos
    ELSE LET m == matches[i] IN
         IF m.value < 7 /\ ~is_some(first_pos[m.value])
         THEN record_first_pos(matches, i + 1, [first_pos EXCEPT ![m.value] = Some(m.start)])
         ELSE record_first_pos(matches, i + 1, first_pos)

\* the final loop left out: any order of the seven is accepted
strictly_increasing_not_tested(first_pos) == TRUE

\* the final loop: every position greater than the one before
strictly_increasing(first_pos) ==
    \A k \in 1..6 : ~(unwrap(first_pos[k]) <= unwrap(first_pos[k - 1]))

is_record_start(line) ==
    IF Len(line) < 23 THEN [panic |-> FALSE, ok |-> FALSE]
    ELSE IF ~str_slice_ok(line, 0, 23) THEN [panic |-> TRUE, ok |-> FALSE]
    ELSE IF ~is_ts_millis(Slice(line, 0, 23)) THEN [panic |-> FALSE, ok |-> FALSE]
    ELSE LET rest == Slice(line, 23, Len(line))
             o == find(rest, <<40>>)
         IN IF ~is_some(o) THEN [panic |-> FALSE, ok |-> FALSE]
            ELSE LET open == unwrap(o)
                     c == find(Slice(rest, open, Len(rest)), <<41>>)
                 IN IF ~is_some(c) THEN [panic |-> FALSE, ok |-> FALSE]
                    ELSE LET close == open + unwrap(c)
                             meta == Slice(rest, open + 1, close)
                             first_pos == record_first_pos(ac_find_iter(meta, 0, 1), 1,
                                                           [id \in 0..6 |-> None])
                         IN IF \E id \in 0..6 : ~is_some(first_pos[id])
                            THEN [panic |-> FALSE, ok |-> FALSE]
                            ELSE [panic |-> FALSE, ok |-> strictly_increasing(first_pos)]

---------------------------------------------------------------------------
(* tools.rs: the static AC, a once_cell::sync::Lazy.  Its cell is          *)
(* INCOMPLETE, RUNNING while one thread runs the initializer, or COMPLETE; *)
(* a thread that finds it RUNNING waits                                    *)

MaxThreads == 2

MaxCalls == 2

Threads == 1..MaxThreads

\* static AC: Lazy<...> = Lazy::new(..): nothing built, the slot empty
Uninit == [state |-> "INCOMPLETE", value |-> None]

\* no thread is in a call; seen is what the thread's last deref of AC gave
NoCalls == [t \in Threads |-> [pc |-> "idle", calls |-> 0, built |-> None, seen |-> None]]

\* whether is_record_start(line) gets as far as AC.find_iter (tools.rs 96-124)
uses_AC(line) ==
    /\ Len(line) >= 23
    /\ str_slice_ok(line, 0, 23)
    /\ is_ts_millis(Slice(line, 0, 23))
    /\ LET rest == Slice(line, 23, Len(line))
           o == find(rest, <<40>>)
       IN is_some(o) /\ is_some(find(Slice(rest, unwrap(o), Len(rest)), <<41>>))

\* a cell that lets a thread start the initializer although another runs it
may_initialize_while_running(state) == state /= "COMPLETE"

\* the compare-exchange INCOMPLETE -> RUNNING succeeds only from INCOMPLETE
may_initialize(state) == state = "INCOMPLETE"

---------------------------------------------------------------------------
(* parser.rs: RecordSplitter *)

\* scan_for_ts without its line-start test: any offset holding a timestamp matches
RECURSIVE scan_for_ts_any_offset(_, _, _)
scan_for_ts_any_offset(bytes, pos, limit) ==
    IF pos > limit THEN [panic |-> FALSE, found |-> None]
    ELSE IF ~bytes_slice_ok(bytes, pos, pos + 23)
         THEN [panic |-> TRUE, found |-> None]
    ELSE IF is_ts_millis_bytes(Slice(bytes, pos, pos + 23))
         THEN [panic |-> FALSE, found |-> Some(pos)]
    ELSE scan_for_ts_any_offset(bytes, pos + 1, limit)

\* the while loop of new() and next(): the first pos in pos..limit that is at
\* a line start and holds a timestamp; panic when an index is out of bounds
RECURSIVE scan_for_ts(_, _, _)
scan_for_ts(bytes, pos, limit) ==
    IF pos > limit THEN [panic |-> FALSE, found |-> None]
    ELSE IF pos /= 0 /\ pos - 1 >= Len(bytes)
         THEN [panic |-> TRUE, found |-> None]
    ELSE IF pos = 0 \/ At(bytes, pos - 1) = 10
         THEN IF ~bytes_slice_ok(bytes, pos, pos + 23)
              THEN [panic |-> TRUE, found |-> None]
              ELSE IF is_ts_millis_bytes(Slice(bytes, pos, pos + 23))
                   THEN [panic |-> FALSE, found |-> Some(pos)]
                   ELSE scan_for_ts(bytes, pos + 1, limit)
    ELSE scan_for_ts(bytes, pos + 1, limit)

\* RecordSplitter::new with its limit one too far: n - 22
RecordSplitter_new_limit_22(t) ==
    LET n == Len(t)
        sc == IF n >= 23 THEN scan_for_ts(t, 0, saturating_sub(n, 22))
              ELSE [panic |-> FALSE, found |-> None]
        first_start == sc.found
    IN [panic |-> sc.panic,
        self  |-> [n           |-> n,
                   scan_pos    |-> unwrap_or(first_start, 0) + 1,
                   next_start  |-> first_start,
                   finished    |-> FALSE,
                   first_start |-> first_start]]

RecordSplitter_new(t) ==
    LET n == Len(t)
        sc == IF n >= 23 THEN scan_for_ts(t, 0, saturating_sub(n, 23))
              ELSE [panic |-> FALSE, found |-> None]
        first_start == sc.found
    IN [panic |-> sc.panic,
        self  |-> [n           |-> n,
                   scan_pos    |-> unwrap_or(first_start, 0) + 1,
                   next_start  |-> first_start,
                   finished    |-> FALSE,
                   first_start |-> first_start]]

\* leading_errors_slice cut at scan_pos instead of first_start
leading_errors_slice_to_scan_pos(t, self) ==
    IF is_some(self.first_start)
    THEN [panic |-> ~str_slice_ok(t, 0, self.scan_pos),
          slice |-> Some([start |-> 0, end |-> self.scan_pos])]
    ELSE [panic |-> FALSE, slice |-> None]

\* leading_errors_slice: Some(&text[..s]) as the offset pair, None without a first_start
leading_errors_slice(t, self) ==
    IF is_some(self.first_start)
    THEN [panic |-> ~str_slice_ok(t, 0, unwrap(self.first_start)),
          slice |-> Some([start |-> 0, end |-> unwrap(self.first_start)])]
    ELSE [panic |-> FALSE, slice |-> None]

\* next() with three of its lines open to change: how far past the anchor found
\* the cursor is put, whether a span that ends at an anchor found finishes the
\* scanner, where the final span ends
next_changed(t, self, advance, finish_on_found, final_end) ==
    IF self.finished THEN [self |-> self, item |-> None, panic |-> FALSE]
    ELSE IF ~is_some(self.next_start)
         THEN [self |-> [self EXCEPT !.finished = TRUE], item |-> None, panic |-> FALSE]
    ELSE LET start == unwrap(self.next_start)
             final == [self  |-> [self EXCEPT !.finished = TRUE],
                       item  |-> Some([start |-> start, end |-> final_end]),
                       panic |-> ~str_slice_ok(t, start, final_end)]
         IN IF self.scan_pos > self.n THEN final
            ELSE LET sc == scan_for_ts(t, self.scan_pos, saturating_sub(self.n, 23))
                 IN IF sc.panic THEN [self |-> self, item |-> None, panic |-> TRUE]
                    ELSE IF is_some(sc.found)
                         THEN LET pos == unwrap(sc.found) IN
                              [self  |-> [self EXCEPT !.next_start = Some(pos),
                                                      !.scan_pos = pos + advance,
                                                      !.finished = finish_on_found],
                               item  |-> Some([start |-> start, end |-> pos]),
                               panic |-> ~str_slice_ok(t, start, pos)]
                         ELSE final

\* next() whose final span stops one byte before the end of the buffer
RecordSplitter_next_final_span_short(t, self) == next_changed(t, self, 1, FALSE, self.n - 1)

\* next() that sets finished with every span it returns
RecordSplitter_next_finished_early(t, self) == next_changed(t, self, 1, TRUE, self.n)

\* next() that puts the cursor two past the anchor found instead of one
RecordSplitter_next_cursor_two_past(t, self) == next_changed(t, self, 2, FALSE, self.n)

\* next() that returns None in place of the final span
RecordSplitter_next_drops_final_span(t, self) ==
    LET r == next_changed(t, self, 1, FALSE, self.n)
    IN IF r.self.finished /\ ~self.finished THEN [r EXCEPT !.item = None] ELSE r

\* the offsets the while loop of next() tests: from scan_pos to the anchor
\* found, or to limit when none is found; none when next() returns before it
offsets_tested_by_next(t, self) ==
    IF self.finished \/ ~is_some(self.next_start) \/ self.scan_pos > self.n THEN {}
    ELSE LET limit == saturating_sub(self.n, 23)
             sc == scan_for_ts(t, self.scan_pos, limit)
         IN IF is_some(sc.found) THEN self.scan_pos..unwrap(sc.found) ELSE self.scan_pos..limit

\* Iterator::next: the scanner after the call, the item returned, and whether it panicked
RecordSplitter_next(t, self) ==
    IF self.finished THEN [self |-> self, item |-> None, panic |-> FALSE]
    ELSE IF ~is_some(self.next_start)
         THEN [self |-> [self EXCEPT !.finished = TRUE], item |-> None, panic |-> FALSE]
    ELSE LET start == unwrap(self.next_start) IN
         IF self.scan_pos > self.n
         THEN [self  |-> [self EXCEPT !.finished = TRUE],
               item  |-> Some([start |-> start, end |-> self.n]),
               panic |-> ~str_slice_ok(t, start, self.n)]
         ELSE LET limit == saturating_sub(self.n, 23)
                  sc == scan_for_ts(t, self.scan_pos, limit)
              IN IF sc.panic THEN [self |-> self, item |-> None, panic |-> TRUE]
                 ELSE IF is_some(sc.found)
                      THEN LET pos == unwrap(sc.found) IN
                           [self  |-> [self EXCEPT !.next_start = Some(pos),
                                                   !.scan_pos = pos + 1],
                            item  |-> Some([start |-> start, end |-> pos]),
                            panic |-> ~str_slice_ok(t, start, pos)]
                      ELSE [self  |-> [self EXCEPT !.finished = TRUE],
                            item  |-> Some([start |-> start, end |-> self.n]),
                            panic |-> ~str_slice_ok(t, start, self.n)]

---------------------------------------------------------------------------
(* parser.rs: parse_record and its helpers *)

\* char::is_whitespace at offset i of s: the byte length of the White_Space
\* character that starts there, 0 when none does
ws_len(s, i) ==
    LET b0 == At(s, i)
        b1 == IF i + 1 < Len(s) THEN At(s, i + 1) ELSE 0
        b2 == IF i + 2 < Len(s) THEN At(s, i + 2) ELSE 0
    IN IF (b0 >= 9 /\ b0 <= 13) \/ b0 = 32 THEN 1
       ELSE IF b0 = 194 /\ (b1 = 133 \/ b1 = 160) THEN 2
       ELSE IF b0 = 225 /\ b1 = 154 /\ b2 = 128 THEN 3
       ELSE IF b0 = 226 /\ b1 = 128 /\ ((b2 >= 128 /\ b2 <= 138) \/ b2 = 168 \/ b2 = 169 \/ b2 = 175)
            THEN 3
       ELSE IF b0 = 226 /\ b1 = 129 /\ b2 = 159 THEN 3
       ELSE IF b0 = 227 /\ b1 = 128 /\ b2 = 128 THEN 3
       ELSE 0

RECURSIVE skip_ws(_, _)
skip_ws(s, i) ==
    IF i < Len(s) /\ ws_len(s, i) > 0 THEN skip_ws(s, i + ws_len(s, i)) ELSE i

\* str::trim_start
trim_start(s) == Slice(s, skip_ws(s, 0), Len(s))

RECURSIVE token_end(_, _)
token_end(s, i) ==
    IF i >= Len(s) \/ ws_len(s, i) > 0 THEN i ELSE token_end(s, i + 1)

\* str::split_whitespace: the maximal runs of non-whitespace from offset i on
RECURSIVE split_whitespace_from(_, _)
split_whitespace_from(s, i) ==
    LET j == skip_ws(s, i) IN
    IF j >= Len(s) THEN <<>>
    ELSE LET e == token_end(s, j) IN <<Slice(s, j, e)>> \o split_whitespace_from(s, e)

split_whitespace(s) == split_whitespace_from(s, 0)

\* str::trim_start_matches: every leading repetition of the pattern is removed
RECURSIVE trim_start_matches(_, _)
trim_start_matches(s, pat) ==
    IF starts_with(s, pat) THEN trim_start_matches(Slice(s, Len(pat), Len(s)), pat) ELSE s

\* u64 values are kept as their decimal digits without leading zeros, so that
\* the full 64-bit range is exact
U64_MAX == <<1,8,4,4,6,7,4,4,0,7,3,7,0,9,5,5,1,6,1,5>>

RECURSIVE digits_less(_, _, _)
digits_less(a, b, i) ==
    IF i > Len(a) THEN FALSE
    ELSE IF a[i] /= b[i] THEN a[i] < b[i]
    ELSE digits_less(a, b, i + 1)

u64_greater_than_max(v) ==
    Len(v) > Len(U64_MAX) \/ (Len(v) = Len(U64_MAX) /\ digits_less(U64_MAX, v, 1))

\* val * 10 + d with no clamp at 2^64 - 1
mul10_add_unclamped(val, d) ==
    IF val = <<0>> THEN <<d>> ELSE Append(val, d)

\* val.saturating_mul(10).saturating_add(d)
saturating_mul10_add(val, d) ==
    LET exact == IF val = <<0>> THEN <<d>> ELSE Append(val, d)
    IN IF u64_greater_than_max(exact) THEN U64_MAX ELSE exact

RECURSIVE skip_non_digits(_, _)
skip_non_digits(bytes, i) ==
    IF i < Len(bytes) /\ ~is_ascii_digit(At(bytes, i)) THEN skip_non_digits(bytes, i + 1) ELSE i

RECURSIVE accumulate_digits(_, _, _)
accumulate_digits(bytes, i, val) ==
    IF i < Len(bytes) /\ is_ascii_digit(At(bytes, i))
    THEN accumulate_digits(bytes, i + 1, saturating_mul10_add(val, At(bytes, i) - 48))
    ELSE <<val, i>>

\* parse_digits_forward without the loop that skips non-digits
parse_digits_forward_no_skip(s, i) ==
    IF i >= Len(s) \/ ~is_ascii_digit(At(s, i)) THEN None
    ELSE Some(accumulate_digits(s, i, <<0>>))

\* parse_digits_forward: Some((val, end)) or None
parse_digits_forward(s, i0) ==
    LET i == skip_non_digits(s, i0) IN
    IF i >= Len(s) \/ ~is_ascii_digit(At(s, i)) THEN None
    ELSE Some(accumulate_digits(s, i, <<0>>))

EP == <<69, 80, 91>>                            \* "EP["
SESS == <<115, 101, 115, 115, 58>>              \* "sess:"
THRD == <<116, 104, 114, 100, 58>>              \* "thrd:"
USER == <<117, 115, 101, 114, 58>>              \* "user:"
TRXID == <<116, 114, 120, 105, 100, 58>>        \* "trxid:"
STMT == <<115, 116, 109, 116, 58>>              \* "stmt:"
APPNAME == <<97, 112, 112, 110, 97, 109, 101, 58>>   \* "appname:"
IP == <<105, 112, 58, 58, 58>>                  \* "ip:::"
FFFF == <<102, 102, 102, 102, 58>>              \* "ffff:"
EXEC_ID == <<69, 88, 69, 67, 95, 73, 68, 58>>           \* "EXEC_ID:"
ROWCOUNT == <<82, 79, 87, 67, 79, 85, 78, 84, 58>>      \* "ROWCOUNT:"
EXECTIME == <<69, 88, 69, 67, 84, 73, 77, 69, 58>>      \* "EXECTIME:"

NoMeta == [ep |-> None, sess |-> None, thrd |-> None, user |-> None, trxid |-> None,
           stmt |-> None, appname |-> None, ip |-> None]

\* the while-let loop over meta_raw.split_whitespace().peekable(), from token i on
RECURSIVE meta_tokens(_, _, _)
meta_tokens(toks, i, f) ==
    IF i > Len(toks) THEN f
    ELSE LET tok == toks[i] IN
         IF starts_with(tok, EP) THEN meta_tokens(toks, i + 1, [f EXCEPT !.ep = Some(tok)])
         ELSE IF starts_with(tok, SESS)
              THEN meta_tokens(toks, i + 1, [f EXCEPT !.sess = Some(Slice(tok, 5, Len(tok)))])
         ELSE IF starts_with(tok, THRD)
              THEN meta_tokens(toks, i + 1, [f EXCEPT !.thrd = Some(Slice(tok, 5, Len(tok)))])
         ELSE IF starts_with(tok, USER)
              THEN meta_tokens(toks, i + 1, [f EXCEPT !.user = Some(Slice(tok, 5, Len(tok)))])
         ELSE IF starts_with(tok, TRXID)
              THEN meta_tokens(toks, i + 1, [f EXCEPT !.trxid = Some(Slice(tok, 6, Len(tok)))])
         ELSE IF starts_with(tok, STMT)
              THEN meta_tokens(toks, i + 1, [f EXCEPT !.stmt = Some(Slice(tok, 5, Len(tok)))])
         ELSE IF tok = APPNAME
              THEN IF i + 1 <= Len(toks)
                   THEN LET next == toks[i + 1] IN
                        IF starts_with(next, IP)
                        THEN LET ippart == trim_start_matches(next, IP)
                                 ipclean == trim_start_matches(ippart, FFFF)
                             IN meta_tokens(toks, i + 2,
                                    [f EXCEPT !.ip = Some(ipclean), !.appname = Some(<<>>)])
                        ELSE meta_tokens(toks, i + 2, [f EXCEPT !.appname = Some(next)])
                   ELSE meta_tokens(toks, i + 1, [f EXCEPT !.appname = Some(<<>>)])
         ELSE IF starts_with(tok, APPNAME)
              THEN LET val == Slice(tok, 8, Len(tok)) IN
                   IF starts_with(val, IP)
                   THEN LET ippart == trim_start_matches(val, IP)
                            ipclean == trim_start_matches(ippart, FFFF)
                        IN meta_tokens(toks, i + 1,
                               [f EXCEPT !.ip = Some(ipclean), !.appname = Some(<<>>)])
                   ELSE meta_tokens(toks, i + 1, [f EXCEPT !.appname = Some(val)])
         ELSE meta_tokens(toks, i + 1, f)

\* the split of a record into ts, meta_raw and body (parser.rs 220-242); panic
\* when one of its slices is off a character boundary
split_record(rec) ==
    LET n == Len(rec)
        p1 == n >= 23 /\ ~str_slice_ok(rec, 0, 23)
        p2 == n > 23 /\ ~str_slice_ok(rec, 23, n)
        ts == IF n >= 23 THEN Slice(rec, 0, 23) ELSE <<>>
        after_ts == IF n > 23 THEN Slice(rec, 23, n) ELSE <<>>
        open == find(after_ts, <<40>>)
    IN IF p1 \/ p2 THEN [panic |-> TRUE, ts |-> <<>>, meta_raw |-> <<>>, body |-> <<>>]
       ELSE IF is_some(open)
       THEN LET open_idx == unwrap(open)
                close == find(Slice(after_ts, open_idx, Len(after_ts)), <<41>>)
            IN IF is_some(close)
               THEN LET close_rel == unwrap(close)
                        body_start == 23 + open_idx + close_rel + 1
                    IN [panic    |-> \/ ~str_slice_ok(after_ts, open_idx + 1, open_idx + close_rel)
                                     \/ (body_start < n /\ ~str_slice_ok(rec, body_start, n)),
                        ts       |-> ts,
                        meta_raw |-> Slice(after_ts, open_idx + 1, open_idx + close_rel),
                        body     |-> IF body_start < n
                                     THEN trim_start(Slice(rec, body_start, n))
                                     ELSE <<>>]
               ELSE [panic |-> FALSE, ts |-> ts, meta_raw |-> <<>>, body |-> after_ts]
       ELSE [panic |-> FALSE, ts |-> ts, meta_raw |-> <<>>, body |-> after_ts]

\* the tail-anchored search for the three counters (parser.rs 299-328)
numeric_metrics(body_str) ==
    LET e1 == rfind(body_str, EXEC_ID)
        execute_id == IF is_some(e1)
                      THEN LET d == parse_digits_forward(body_str, unwrap(e1) + Len(EXEC_ID))
                           IN IF is_some(d) THEN Some(unwrap(d)[1]) ELSE None
                      ELSE None
        end1 == IF is_some(e1) THEN unwrap(e1) ELSE Len(body_str)
        e2 == rfind(Slice(body_str, 0, end1), ROWCOUNT)
        row_count == IF is_some(e2)
                     THEN LET d == parse_digits_forward(body_str, unwrap(e2) + Len(ROWCOUNT))
                          IN IF is_some(d) THEN Some(unwrap(d)[1]) ELSE None
                     ELSE None
        end2 == IF is_some(e2) THEN unwrap(e2) ELSE end1
        e3 == rfind(Slice(body_str, 0, end2), EXECTIME)
        execute_time_ms == IF is_some(e3)
                           THEN LET d == parse_digits_forward(body_str, unwrap(e3) + Len(EXECTIME))
                                IN IF is_some(d) THEN Some(unwrap(d)[1]) ELSE None
                           ELSE None
    IN [panic |-> ~str_slice_ok(body_str, 0, end1) \/ ~str_slice_ok(body_str, 0, end2),
        execute_time_ms |-> execute_time_ms, row_count |-> row_count, execute_id |-> execute_id]

parse_record(rec) ==
    LET sp == split_record(rec)
        f == meta_tokens(split_whitespace(sp.meta_raw), 1, NoMeta)
        m == numeric_metrics(sp.body)
    IN IF sp.panic \/ m.panic THEN [panic |-> TRUE]
       ELSE [panic |-> FALSE, ts |-> sp.ts, meta_raw |-> sp.meta_raw,
             ep |-> f.ep, sess |-> f.sess, thrd |-> f.thrd, user |-> f.user,
             trxid |-> f.trxid, stmt |-> f.stmt, appname |-> f.appname, ip |-> f.ip,
             body |-> sp.body,
             execute_time_ms |-> m.execute_time_ms, row_count |-> m.row_count,
             execute_id |-> m.execute_id]

---------------------------------------------------------------------------
(* parser.rs: the whole-buffer functions *)

\* `for rec in splitter`: next() is called until it returns None
RECURSIVE collect(_, _, _)
collect(t, self, acc) ==
    LET r == RecordSplitter_next(t, self) IN
    IF r.panic THEN [panic |-> TRUE, items |-> acc]
    ELSE IF is_some(r.item) THEN collect(t, r.self, Append(acc, unwrap(r.item)))
    ELSE [panic |-> FALSE, items |-> acc]

\* str::lines: the text is cut after every "\n"; each line loses its "\n" and
\* then one "\r" before it; a last line without "\n" is kept as it is
RECURSIVE lines_from(_, _)
lines_from(s, i) ==
    IF i >= Len(s) THEN <<>>
    ELSE LET nl == find_from(s, <<10>>, i) IN
         IF is_some(nl)
         THEN LET e == unwrap(nl)
                  e2 == IF e > i /\ At(s, e - 1) = 13 THEN e - 1 ELSE e
              IN <<Slice(s, i, e2)>> \o lines_from(s, e + 1)
         ELSE <<Slice(s, i, Len(s))>>

lines(s) == lines_from(s, 0)

\* the text of a yielded span
span_text(t, sp) == Slice(t, sp.start, sp.end)

\* the loop `for line in prefix.lines() { errors.push(line) }` onto errors
push_leading_errors(t, self, errors) ==
    LET le == leading_errors_slice(t, self) IN
    [panic  |-> le.panic,
     errors |-> IF is_some(le.slice) /\ ~le.panic
                THEN errors \o lines(span_text(t, unwrap(le.slice)))
                ELSE errors]

split_by_ts_records_with_errors(t) ==
    LET nw == RecordSplitter_new(t)
        er == push_leading_errors(t, nw.self, <<>>)
        c == collect(t, nw.self, <<>>)
    IN [panic   |-> nw.panic \/ er.panic \/ c.panic,
        records |-> c.items,
        errors  |-> er.errors]

\* split_into: records and errors are the caller's containers before the call
split_into(t, records, errors) ==
    LET cleared_records == <<>>
        cleared_errors == <<>>
        nw == RecordSplitter_new(t)
        er == push_leading_errors(t, nw.self, cleared_errors)
        c == collect(t, nw.self, cleared_records)
    IN [panic   |-> nw.panic \/ er.panic \/ c.panic,
        records |-> c.items,
        errors  |-> er.errors]

\* for_each_record: the sequence of the callback's arguments
for_each_record(t) ==
    LET nw == RecordSplitter_new(t)
        le == leading_errors_slice(t, nw.self)
        c == collect(t, nw.self, <<>>)
    IN [panic |-> nw.panic \/ le.panic \/ c.panic, calls |-> c.items]

\* parse_record applied to each span of a sequence
parse_each(t, items) == [i \in 1..Len(items) |-> parse_record(span_text(t, items[i]))]

any_panic(parsed) == \E i \in 1..Len(parsed) : parsed[i].panic

\* parse_records_with: the sequence of the callback's arguments
parse_records_with(t) ==
    LET fe == for_each_record(t)
        parsed == parse_each(t, fe.calls)
    IN [panic |-> fe.panic \/ any_panic(parsed), calls |-> parsed]

\* parse_into without out.clear()
parse_into_no_clear(t, out) ==
    LET nw == RecordSplitter_new(t)
        c == collect(t, nw.self, <<>>)
        parsed == parse_each(t, c.items)
    IN [panic |-> nw.panic \/ c.panic \/ any_panic(parsed), out |-> out \o parsed]

\* parse_into: out is the caller's container before the call
parse_into(t, out) ==
    LET cleared == <<>>
        nw == RecordSplitter_new(t)
        c == collect(t, nw.self, <<>>)
        parsed == parse_each(t, c.items)
    IN [panic |-> nw.panic \/ c.panic \/ any_panic(parsed), out |-> cleared \o parsed]

parse_all(t) ==
    LET nw == RecordSplitter_new(t)
        c == collect(t, nw.self, <<>>)
        parsed == parse_each(t, c.items)
    IN [panic |-> nw.panic \/ c.panic \/ any_panic(parsed), out |-> parsed]

---------------------------------------------------------------------------
(* The buffers: concatenations of at most MaxPieces pieces *)

MaxPieces == 4

TsA == <<50,48,50,53,45,48,56,45,49,50,32,49,48,58,53,55,58,48,57,46,53,54,49>>

Pieces == <<
    TsA,                                \* "2025-08-12 10:57:09.561"
    SubSeq(TsA, 1, 22),                 \* the same cut one byte short
    <<10>>,                             \* "\n"
    <<13>>,                             \* "\r"
    <<195, 169>>,                       \* a two-byte character
    <<32, 40, 69, 80, 91, 48, 93>>,     \* " (EP[0]"
    <<41, 32, 120>>                     \* ") x"
>>

NoSplitter == [n |-> 0, scan_pos |-> 0, next_start |-> None, finished |-> FALSE,
               first_start |-> None]

NoResult == [fn |-> "none"]

Init ==
    /\ text = <<>>
    /\ npieces = 0
    /\ pc = "input"
    /\ splitter = NoSplitter
    /\ yielded = <<>>
    /\ last = None
    /\ panicked = FALSE
    /\ result = NoResult
    /\ AC = Uninit
    /\ threads = NoCalls
    /\ LOG_GUARD = None
    /\ global_default = None
    /\ shape = <<>>

AppendPiece(k) ==
    /\ pc = "input"
    /\ npieces < MaxPieces
    /\ text' = text \o Pieces[k]
    /\ npieces' = npieces + 1
    /\ UNCHANGED <<LOG_GUARD, global_default, AC, threads, pc, splitter, yielded, last, panicked, result, shape>>

New ==
    /\ pc = "input"
    /\ LET r == RecordSplitter_new(text) IN
        /\ splitter' = r.self
        /\ panicked' = r.panic
    /\ pc' = "iter"
    /\ UNCHANGED <<LOG_GUARD, global_default, AC, threads, text, npieces, yielded, last, result, shape>>

NextCall ==
    /\ pc = "iter"
    /\ ~panicked
    /\ LET r == RecordSplitter_next(text, splitter) IN
        /\ splitter' = r.self
        /\ last' = r.item
        /\ yielded' = IF is_some(r.item) THEN Append(yielded, unwrap(r.item)) ELSE yielded
        /\ panicked' = r.panic
    /\ UNCHANGED <<LOG_GUARD, global_default, AC, threads, text, npieces, pc, result, shape>>

\* what the caller's reusable containers may hold before a call
StaleContainers == {<<>>, <<[start |-> 0, end |-> 0]>>}

Returned(fn, r) ==
    /\ pc = "input"
    /\ pc' = "called"
    /\ result' = [fn |-> fn] @@ r
    /\ UNCHANGED <<LOG_GUARD, global_default, AC, threads, text, npieces, splitter, yielded, last, panicked, shape>>

CallSplitByTsRecordsWithErrors ==
    Returned("split_by_ts_records_with_errors", split_by_ts_records_with_errors(text))

CallSplitInto ==
    \E records \in StaleContainers, errors \in StaleContainers :
        Returned("split_into", split_into(text, records, errors))

CallForEachRecord == Returned("for_each_record", for_each_record(text))

CallParseRecordsWith == Returned("parse_records_with", parse_records_with(text))

CallParseInto ==
    \E out \in StaleContainers : Returned("parse_into", parse_into(text, out))

CallParseAll == Returned("parse_all", parse_all(text))

Next ==
    \/ \E k \in DOMAIN Pieces : AppendPiece(k)
    \/ New
    \/ NextCall
    \/ CallSplitByTsRecordsWithErrors
    \/ CallSplitInto
    \/ CallForEachRecord
    \/ CallParseRecordsWith
    \/ CallParseInto
    \/ CallParseAll

Spec == Init /\ [][Next]_vars

---------------------------------------------------------------------------
(* SpecIter: a buffer of at most MaxIterPieces pieces and a consumer that  *)
(* keeps calling next() -- `for rec in splitter` in the collecting         *)
(* functions, or a caller that goes on asking for spans                    *)

MaxIterPieces == 3

AppendIterPiece(k) ==
    /\ pc = "input"
    /\ npieces < MaxIterPieces
    /\ text' = text \o Pieces[k]
    /\ npieces' = npieces + 1
    /\ UNCHANGED <<LOG_GUARD, global_default, AC, threads, pc, splitter, yielded, last, panicked, result, shape>>

NextIter ==
    \/ \E k \in DOMAIN Pieces : AppendIterPiece(k)
    \/ New
    \/ NextCall
    \/ CallSplitByTsRecordsWithErrors
    \/ CallParseAll

SpecIter == Init /\ [][NextIter]_vars /\ WF_vars(NextCall)

---------------------------------------------------------------------------
(* The timestamp candidates of SpecTs: a timestamp with at most MaxEdits   *)
(* bytes replaced, dropped or added                                        *)

MaxEdits == 2

TsB == <<50, 48, 50, 51, 45, 49, 48, 45, 48, 53, 32, 49, 52, 58, 50, 51, 58, 52, 53, 46, 49, 50, 51>>

\* '/' and ':' lie next to the digits, 'T' and '0' are wrong separators, '3' makes month 13
EditBytes == {47, 48, 51, 58, 84}

InitTs ==
    /\ text = TsB
    /\ npieces = 0
    /\ pc = "input"
    /\ splitter = NoSplitter
    /\ yielded = <<>>
    /\ last = None
    /\ panicked = FALSE
    /\ result = NoResult
    /\ AC = Uninit
    /\ threads = NoCalls
    /\ LOG_GUARD = None
    /\ global_default = None
    /\ shape = <<>>

Edited(t) ==
    /\ pc = "input"
    /\ npieces < MaxEdits
    /\ text' = t
    /\ npieces' = npieces + 1
    /\ UNCHANGED <<LOG_GUARD, global_default, AC, threads, pc, splitter, yielded, last, panicked, result, shape>>

SetByte(i, byte) == i < Len(text) /\ Edited([text EXCEPT ![i + 1] = byte])

DropLastByte == Len(text) > 0 /\ Edited(SubSeq(text, 1, Len(text) - 1))

AppendByte(byte) == Edited(Append(text, byte))

CallIsTsMillis == Returned("is_ts_millis", [ok |-> is_ts_millis(text)])

CallIsTsMillisBytes == Returned("is_ts_millis_bytes", [ok |-> is_ts_millis_bytes(text)])

NextTs ==
    \/ \E i \in 0..24, byte \in EditBytes : SetByte(i, byte)
    \/ DropLastByte
    \/ \E byte \in EditBytes : AppendByte(byte)
    \/ CallIsTsMillis
    \/ CallIsTsMillisBytes

SpecTs == InitTs /\ [][NextTs]_vars

---------------------------------------------------------------------------
(* The lines of SpecRS: a timestamp, a parenthesized block of marker       *)
(* tokens in some order, and one way of spoiling the line                  *)

MaxExtras == 1

\* the marker tokens, by 1-based marker number
TokenText == <<
    <<69, 80, 91, 48, 93>>,        \* "EP[0]"
    <<115, 101, 115, 115, 58, 97>>,        \* "sess:a"
    <<116, 104, 114, 100, 58, 49>>,        \* "thrd:1"
    <<117, 115, 101, 114, 58, 106>>,        \* "user:j"
    <<116, 114, 120, 105, 100, 58, 49>>,        \* "trxid:1"
    <<115, 116, 109, 116, 58, 120>>,        \* "stmt:x"
    <<97, 112, 112, 110, 97, 109, 101, 58, 109>>         \* "appname:m"
>>

Variants == {"ok", "lead_ws", "bad_ts", "no_block", "no_open", "no_close",
             "outside_after", "outside_before"}

ExtraKinds == {"filler", "EP_last", "appname_first"}

RECURSIVE JoinTokens(_, _, _)
JoinTokens(tokens, i, sep) ==
    IF i > Len(tokens) THEN <<>>
    ELSE TokenText[tokens[i]]
         \o (IF i < Len(tokens) THEN sep ELSE <<>>)
         \o JoinTokens(tokens, i + 1, sep)

\* the marker tokens as text: " zz " between them with the extra "filler",
\* "appname:q " before them with "appname_first", " EP[9]" after them with "EP_last"
RenderBlock(sh) ==
    (IF "appname_first" \in sh.extras THEN <<97, 112, 112, 110, 97, 109, 101, 58, 113, 32>> ELSE <<>>)
    \o JoinTokens(sh.tokens, 1, IF "filler" \in sh.extras THEN <<32, 122, 122, 32>> ELSE <<32>>)
    \o (IF "EP_last" \in sh.extras THEN <<32, 69, 80, 91, 57, 93>> ELSE <<>>)

RenderLine(sh) ==
    LET blk == RenderBlock(sh)
        ts == IF sh.variant = "bad_ts" THEN [TsA EXCEPT ![11] = 84] ELSE TsA
    IN CASE sh.variant \in {"ok", "bad_ts"} -> ts \o <<32, 40>> \o blk \o <<41>>
         [] sh.variant = "lead_ws"          -> <<32>> \o ts \o <<32, 40>> \o blk \o <<41>>
         [] sh.variant = "no_block"         -> ts \o <<32>> \o blk
         [] sh.variant = "no_open"          -> ts \o <<32>> \o blk \o <<41>>
         [] sh.variant = "no_close"         -> ts \o <<32, 40>> \o blk
         [] sh.variant = "outside_after"    -> ts \o <<32, 40, 41, 32>> \o blk
         [] sh.variant = "outside_before"   -> ts \o <<32>> \o blk \o <<32, 40, 41>>

InitRS ==
    /\ \E v \in Variants, ex \in SUBSET ExtraKinds :
        /\ Cardinality(ex) <= MaxExtras
        /\ shape = [variant |-> v, extras |-> ex, tokens |-> <<>>]
    /\ text = RenderLine(shape)
    /\ npieces = 0
    /\ pc = "input"
    /\ splitter = NoSplitter
    /\ yielded = <<>>
    /\ last = None
    /\ panicked = FALSE
    /\ result = NoResult
    /\ AC = Uninit
    /\ threads = NoCalls
    /\ LOG_GUARD = None
    /\ global_default = None

\* a marker not yet in the block is appended; a spoiled line keeps the
\* markers in the required order
AppendMarker(m) ==
    /\ pc = "input"
    /\ \A i \in 1..Len(shape.tokens) : shape.tokens[i] /= m
    /\ shape.variant /= "ok" => m = Len(shape.tokens) + 1
    /\ shape' = [shape EXCEPT !.tokens = Append(@, m)]
    /\ text' = RenderLine(shape')
    /\ UNCHANGED <<LOG_GUARD, global_default, AC, threads, npieces, pc, splitter, yielded, last, panicked, result>>

CallIsRecordStart == Returned("is_record_start", is_record_start(text))

NextRS ==
    \/ \E m \in 1..7 : AppendMarker(m)
    \/ CallIsRecordStart

SpecRS == InitRS /\ [][NextRS]_vars

---------------------------------------------------------------------------
(* The lines of SpecLine: at most MaxLinePieces pieces of valid UTF-8 put  *)
(* end to end, so that a two-byte character may fall anywhere in the line  *)

MaxLinePieces == 4

LinePieces == <<
    SubSeq(TsA, 1, 22),         \* "2025-08-12 10:57:09.56": a timestamp short of its last digit
    <<49>>,                     \* "1"
    <<195, 169>>,               \* U+00E9, two bytes
    <<32, 40>>,                 \* " ("
    <<41>>,                     \* ")"
    JoinTokens(<<1, 2, 3, 4, 5, 6, 7>>, 1, <<32>>)   \* the seven markers in order
>>

RECURSIVE RenderPieces(_, _)
RenderPieces(ps, i) ==
    IF i > Len(ps) THEN <<>> ELSE LinePieces[ps[i]] \o RenderPieces(ps, i + 1)

InitLine ==
    /\ shape = [lpieces |-> <<>>]
    /\ text = <<>>
    /\ npieces = 0
    /\ pc = "input"
    /\ splitter = NoSplitter
    /\ yielded = <<>>
    /\ last = None
    /\ panicked = FALSE
    /\ result = NoResult
    /\ AC = Uninit
    /\ threads = NoCalls
    /\ LOG_GUARD = None
    /\ global_default = None

AppendLinePiece(k) ==
    /\ pc = "input"
    /\ Len(shape.lpieces) < MaxLinePieces
    /\ shape' = [shape EXCEPT !.lpieces = Append(@, k)]
    /\ text' = RenderPieces(shape'.lpieces, 1)
    /\ UNCHANGED <<LOG_GUARD, global_default, AC, threads, npieces, pc, splitter, yielded, last, panicked, result>>

NextLine ==
    \/ \E k \in DOMAIN LinePieces : AppendLinePiece(k)
    \/ CallIsRecordStart

SpecLine == InitLine /\ [][NextLine]_vars

---------------------------------------------------------------------------
(* The records of SpecParse: a head (timestamp and metadata, well formed   *)
(* or not) followed by at most MaxSegs counter segments "LABEL<gap><digits>" *)

MaxSegs == 3

Heads == <<
    TsA \o <<32, 40, 69, 80, 91, 48, 93, 32, 115, 101, 115, 115, 58, 97, 41, 32>>,      \* timestamp, " (EP[0] sess:a) "
    TsA \o <<32>>,                                      \* timestamp, " ": no parenthesis
    TsA \o <<32, 40, 69, 80, 91, 48, 93, 32>>,       \* timestamp, " (EP[0] ": no ')'
    SubSeq(TsA, 1, 22) \o <<195, 169, 32>>,            \* offset 23 inside a two-byte character
    <<>>,                                               \* nothing: the record is its segments
    TsA \o <<41, 40, 97, 40, 98, 41, 194, 160, 32>>,    \* timestamp, ")(a(b)", U+00A0, " "
    TsA \o <<32, 40, 41>>,                              \* timestamp, " ()"
    TsA                                                 \* the timestamp alone
>>

Labels == <<EXECTIME, ROWCOUNT, EXEC_ID>>

\* what may follow a label: non-digits, then the digits of the counter
Values == <<
    [gap |-> <<32>>, digits |-> <<0>>],
    [gap |-> <<32>>, digits |-> <<1>>],
    [gap |-> <<32>>, digits |-> <<2, 8, 9, 6, 5, 5, 1, 8, 5>>],
    [gap |-> <<>>,   digits |-> <<0, 7>>]
>>

DigitBytes(digits) == [i \in 1..Len(digits) |-> digits[i] + 48]

\* "EXECTIME: 0ms", "ROWCOUNT: 1", ...
RenderSeg(seg) ==
    Labels[seg.label] \o Values[seg.value].gap \o DigitBytes(Values[seg.value].digits)
    \o (IF seg.label = 1 THEN <<109, 115>> ELSE <<>>)

RECURSIVE RenderSegs(_, _)
RenderSegs(segs, i) ==
    IF i > Len(segs) THEN <<>>
    ELSE RenderSeg(segs[i]) \o (IF i < Len(segs) THEN <<32>> ELSE <<>>) \o RenderSegs(segs, i + 1)

RenderRecord(sh) == Heads[sh.head] \o RenderSegs(sh.segs, 1)

InitParse ==
    /\ \E h \in DOMAIN Heads : shape = [head |-> h, segs |-> <<>>]
    /\ text = RenderRecord(shape)
    /\ npieces = 0
    /\ pc = "input"
    /\ splitter = NoSplitter
    /\ yielded = <<>>
    /\ last = None
    /\ panicked = FALSE
    /\ result = NoResult
    /\ AC = Uninit
    /\ threads = NoCalls
    /\ LOG_GUARD = None
    /\ global_default = None

AppendSeg(l, v) ==
    /\ pc = "input"
    /\ Len(shape.segs) < MaxSegs
    /\ shape' = [shape EXCEPT !.segs = Append(@, [label |-> l, value |-> v])]
    /\ text' = RenderRecord(shape')
    /\ UNCHANGED <<LOG_GUARD, global_default, AC, threads, npieces, pc, splitter, yielded, last, panicked, result>>

CallParseRecord == Returned("parse_record", parse_record(text))

NextParse ==
    \/ \E l \in DOMAIN Labels, v \in DOMAIN Values : AppendSeg(l, v)
    \/ CallParseRecord

SpecParse == InitParse /\ [][NextParse]_vars

---------------------------------------------------------------------------
(* The records of SpecSat: a timestamp, one counter label and a digit run  *)
(* that follows the digits of 2^64 - 1 for a while and then leaves them by *)
(* at most MaxTail free digits                                             *)

MaxTail == 2

Gaps == {<<>>, <<32>>}

\* the digit run of a shape: the first `prefix` digits of 2^64 - 1, then the tail
RunDigits(sh) == SubSeq(U64_MAX, 1, sh.prefix) \o sh.tail

\* timestamp, " ", the label, the gap, the digits and, after EXECTIME:, "ms"
RenderCounter(sh) ==
    TsA \o <<32>> \o Labels[sh.label] \o sh.gap \o DigitBytes(RunDigits(sh))
    \o (IF sh.label = 1 THEN <<109, 115>> ELSE <<>>)

InitSat ==
    /\ \E l \in DOMAIN Labels, g \in Gaps :
        shape = [label |-> l, gap |-> g, prefix |-> 0, tail |-> <<>>]
    /\ text = RenderCounter(shape)
    /\ npieces = 0
    /\ pc = "input"
    /\ splitter = NoSplitter
    /\ yielded = <<>>
    /\ last = None
    /\ panicked = FALSE
    /\ result = NoResult
    /\ AC = Uninit
    /\ threads = NoCalls
    /\ LOG_GUARD = None
    /\ global_default = None

\* one more digit of 2^64 - 1
ExtendPrefix ==
    /\ pc = "input"
    /\ shape.tail = <<>>
    /\ shape.prefix < Len(U64_MAX)
    /\ shape' = [shape EXCEPT !.prefix = @ + 1]
    /\ text' = RenderCounter(shape')
    /\ UNCHANGED <<LOG_GUARD, global_default, AC, threads, npieces, pc, splitter, yielded, last, panicked, result>>

AppendDigit(d) ==
    /\ pc = "input"
    /\ Len(shape.tail) < MaxTail
    /\ shape' = [shape EXCEPT !.tail = Append(@, d)]
    /\ text' = RenderCounter(shape')
    /\ UNCHANGED <<LOG_GUARD, global_default, AC, threads, npieces, pc, splitter, yielded, last, panicked, result>>

NextSat ==
    \/ ExtendPrefix
    \/ \E d \in 0..9 : AppendDigit(d)
    \/ CallParseRecord

SpecSat == InitSat /\ [][NextSat]_vars

---------------------------------------------------------------------------
(* The records of SpecMeta: a timestamp, a parenthesized block of at most  *)
(* MaxToks tokens after an optional run of the six leading markers, " x"   *)

MaxToks == 3

MetaTokens == <<
    <<69, 80, 91, 48, 93>>,    \* "EP[0]"
    <<97, 112, 112, 110, 97, 109, 101, 58>>,    \* "appname:"
    <<105, 112, 58, 58, 58, 102, 102, 102, 102, 58, 49, 48, 46, 51, 46, 49, 48, 48, 46, 54, 56>>,    \* "ip:::ffff:10.3.100.68"
    <<105, 112, 58, 58, 58, 49, 48, 46, 51, 46, 49, 48, 48, 46, 54, 56>>,    \* "ip:::10.3.100.68"
    <<97, 112, 112, 110, 97, 109, 101, 58, 97, 112, 112>>,    \* "appname:app"
    <<105, 112, 58, 58, 58, 102, 102, 102, 102, 58, 102, 102, 102, 102, 58, 49>>,    \* "ip:::ffff:ffff:1"
    <<115, 101, 115, 115, 58>>,    \* "sess:"
    <<115, 116, 109, 116, 58, 78, 85, 76, 76>>,    \* "stmt:NULL"
    <<105, 112, 58, 58, 58>>,    \* "ip:::"
    <<97, 112, 112, 110, 97, 109, 101, 58, 105, 112, 58, 58, 58, 102, 102, 102, 102, 58, 49, 48, 46, 51, 46, 49, 48, 48, 46, 54, 56>>
        \* "appname:ip:::ffff:10.3.100.68"
>>

\* nothing, or "EP[0] sess:X thrd:1 user:U trxid:0 stmt:NULL"
MetaBases == <<
    <<>>,
    <<<<69, 80, 91, 48, 93>>, <<115, 101, 115, 115, 58, 88>>, <<116, 104, 114, 100, 58, 49>>, <<117, 115, 101, 114, 58, 85>>, <<116, 114, 120, 105, 100, 58, 48>>, <<115, 116, 109, 116, 58, 78, 85, 76, 76>>>>
>>

\* the tokens of a shape, as texts
ShapeTokens(sh) == MetaBases[sh.base] \o [i \in 1..Len(sh.toks) |-> MetaTokens[sh.toks[i]]]

RECURSIVE JoinWords(_, _)
JoinWords(words, i) ==
    IF i > Len(words) THEN <<>>
    ELSE words[i] \o (IF i < Len(words) THEN <<32>> ELSE <<>>) \o JoinWords(words, i + 1)

RenderMeta(sh) == TsA \o <<32, 40>> \o JoinWords(ShapeTokens(sh), 1) \o <<41, 32, 120>>

InitMeta ==
    /\ \E k \in DOMAIN MetaBases : shape = [base |-> k, toks |-> <<>>]
    /\ text = RenderMeta(shape)
    /\ npieces = 0
    /\ pc = "input"
    /\ splitter = NoSplitter
    /\ yielded = <<>>
    /\ last = None
    /\ panicked = FALSE
    /\ result = NoResult
    /\ AC = Uninit
    /\ threads = NoCalls
    /\ LOG_GUARD = None
    /\ global_default = None

AppendToken(k) ==
    /\ pc = "input"
    /\ Len(shape.toks) < MaxToks
    /\ shape' = [shape EXCEPT !.toks = Append(@, k)]
    /\ text' = RenderMeta(shape')
    /\ UNCHANGED <<LOG_GUARD, global_default, AC, threads, npieces, pc, splitter, yielded, last, panicked, result>>

NextMeta ==
    \/ \E k \in DOMAIN MetaTokens : AppendToken(k)
    \/ CallParseRecord

SpecMeta == InitMeta /\ [][NextMeta]_vars

---------------------------------------------------------------------------
(* The records of SpecWin: a timestamp, " " and at most MaxWin counter     *)
(* labels, each followed by " " and by a digit run or by nothing           *)

MaxWin == 3

\* what follows a label and its space: nothing, "7" or "42"
WinDigits == << <<>>, <<7>>, <<4, 2>> >>

\* "ROWCOUNT: 7", "EXEC_ID: ", ...
RenderWinSeg(seg) == Labels[seg.label] \o <<32>> \o DigitBytes(WinDigits[seg.digits])

RECURSIVE RenderWinSegs(_, _)
RenderWinSegs(segs, i) ==
    IF i > Len(segs) THEN <<>>
    ELSE RenderWinSeg(segs[i]) \o (IF i < Len(segs) THEN <<32>> ELSE <<>>)
         \o RenderWinSegs(segs, i + 1)

RenderWin(sh) == TsA \o <<32>> \o RenderWinSegs(sh.wsegs, 1)

InitWin ==
    /\ shape = [wsegs |-> <<>>]
    /\ text = RenderWin(shape)
    /\ npieces = 0
    /\ pc = "input"
    /\ splitter = NoSplitter
    /\ yielded = <<>>
    /\ last = None
    /\ panicked = FALSE
    /\ result = NoResult
    /\ AC = Uninit
    /\ threads = NoCalls
    /\ LOG_GUARD = None
    /\ global_default = None

AppendWinSeg(l, d) ==
    /\ pc = "input"
    /\ Len(shape.wsegs) < MaxWin
    /\ shape' = [shape EXCEPT !.wsegs = Append(@, [label |-> l, digits |-> d])]
    /\ text' = RenderWin(shape')
    /\ UNCHANGED <<LOG_GUARD, global_default, AC, threads, npieces, pc, splitter, yielded, last, panicked, result>>

NextWin ==
    \/ \E l \in DOMAIN Labels, d \in DOMAIN WinDigits : AppendWinSeg(l, d)
    \/ CallParseRecord

SpecWin == InitWin /\ [][NextWin]_vars

---------------------------------------------------------------------------
(* SpecLazy: MaxThreads threads, each making at most MaxCalls calls of     *)
(* is_record_start or prewarm, interleaved step by step                    *)

\* "x": rejected before the automaton is used; a timestamp and " ()": scanned
Lines == {<<120>>, TsA \o <<32, 40, 41>>}

InitLazy ==
    /\ text = <<>>
    /\ npieces = 0
    /\ pc = "threads"
    /\ splitter = NoSplitter
    /\ yielded = <<>>
    /\ last = None
    /\ panicked = FALSE
    /\ result = NoResult
    /\ shape = <<>>
    /\ AC = Uninit
    /\ threads = NoCalls
    /\ LOG_GUARD = None
    /\ global_default = None

Step(t, to) ==
    /\ threads' = [threads EXCEPT ![t].pc = to]
    /\ UNCHANGED <<LOG_GUARD, global_default, text, npieces, pc, splitter, yielded, last, panicked, result, shape>>

\* prewarm(): `&*AC`
CallPrewarm(t) ==
    /\ threads[t].pc = "idle"
    /\ threads[t].calls < MaxCalls
    /\ threads' = [threads EXCEPT ![t].pc = "force", ![t].calls = @ + 1]
    /\ UNCHANGED <<LOG_GUARD, global_default, text, npieces, pc, splitter, yielded, last, panicked, result, shape, AC>>

\* is_record_start(line): AC is used only when the line gets to the scan
ThreadCallIsRecordStart(t, line) ==
    /\ threads[t].pc = "idle"
    /\ threads[t].calls < MaxCalls
    /\ threads' = [threads EXCEPT ![t].pc = IF uses_AC(line) THEN "force" ELSE "idle",
                                  ![t].calls = @ + 1]
    /\ UNCHANGED <<LOG_GUARD, global_default, text, npieces, pc, splitter, yielded, last, panicked, result, shape, AC>>

\* Lazy::force: the fast path when the cell is COMPLETE, else initialize_or_wait
Force(t) ==
    /\ threads[t].pc = "force"
    /\ Step(t, IF AC.state = "COMPLETE" THEN "deref" ELSE "initialize_or_wait")
    /\ UNCHANGED AC

\* the thread wins the cell and will run the initializer
BeginInit(t) ==
    /\ threads[t].pc = "initialize_or_wait"
    /\ may_initialize(AC.state)
    /\ AC' = [AC EXCEPT !.state = "RUNNING"]
    /\ Step(t, "build")

\* the closure of Lazy::new: DoubleArrayAhoCorasick::new(&pats_bytes).unwrap();
\* the automaton built is named by its builder and call
Build(t) ==
    /\ threads[t].pc = "build"
    /\ threads' = [threads EXCEPT ![t].pc = "store",
                                  ![t].built = Some(<<t, threads[t].calls>>)]
    /\ UNCHANGED <<LOG_GUARD, global_default, text, npieces, pc, splitter, yielded, last, panicked, result, shape, AC>>

\* the value is written to the slot
Store(t) ==
    /\ threads[t].pc = "store"
    /\ AC' = [AC EXCEPT !.value = threads[t].built]
    /\ Step(t, "publish")

\* the cell becomes COMPLETE and the waiting threads are woken
Publish(t) ==
    /\ threads[t].pc = "publish"
    /\ AC' = [AC EXCEPT !.state = "COMPLETE"]
    /\ Step(t, "deref")

\* a thread that waited sees the cell COMPLETE
Woken(t) ==
    /\ threads[t].pc = "initialize_or_wait"
    /\ AC.state = "COMPLETE"
    /\ Step(t, "deref")
    /\ UNCHANGED AC

\* the caller reads the automaton through the reference force() returned
Deref(t) ==
    /\ threads[t].pc = "deref"
    /\ threads' = [threads EXCEPT ![t].pc = "idle", ![t].seen = Some(AC.value)]
    /\ UNCHANGED <<LOG_GUARD, global_default, text, npieces, pc, splitter, yielded, last, panicked, result, shape, AC>>

NextLazy ==
    \E t \in Threads :
        \/ CallPrewarm(t)
        \/ \E line \in Lines : ThreadCallIsRecordStart(t, line)
        \/ Force(t)
        \/ BeginInit(t)
        \/ Build(t)
        \/ Store(t)
        \/ Publish(t)
        \/ Woken(t)
        \/ Deref(t)

SpecLazy == InitLazy /\ [][NextLazy]_vars

---------------------------------------------------------------------------
(* logging.rs: init_logging and init_default_logging.  SpecLog: MaxThreads *)
(* threads, each making at most MaxInits calls, interleaved step by step;  *)
(* a lock of LOG_GUARD and what is done under it is one step               *)

MaxInits == 3

\* no thread is in a call; guard is the WorkerGuard the thread's call made,
\* rets what its calls returned so far
NoInits == [t \in Threads |-> [pc |-> "idle", calls |-> 0, guard |-> None, rets |-> <<>>]]

InitLog ==
    /\ text = <<>>
    /\ npieces = 0
    /\ pc = "logging"
    /\ splitter = NoSplitter
    /\ yielded = <<>>
    /\ last = None
    /\ panicked = FALSE
    /\ result = NoResult
    /\ shape = <<>>
    /\ AC = Uninit
    /\ threads = NoInits
    /\ LOG_GUARD = None
    /\ global_default = None

\* a step of thread t in init_logging that leaves the record splitter alone
LogStep(t, to) ==
    /\ threads' = [threads EXCEPT ![t].pc = to]
    /\ UNCHANGED <<text, npieces, pc, splitter, yielded, last, panicked, result, shape, AC>>

\* a call returns: the WorkerGuard it holds, if any, is dropped
LogReturn(t, ret) ==
    /\ threads' = [threads EXCEPT ![t].pc = "idle", ![t].guard = None,
                                  ![t].rets = Append(@, ret)]
    /\ UNCHANGED <<text, npieces, pc, splitter, yielded, last, panicked, result, shape, AC>>

\* init_logging(config), or init_default_logging() which calls it (77-80)
CallInitLogging(t) ==
    /\ threads[t].pc = "idle"
    /\ threads[t].calls < MaxInits
    /\ threads' = [threads EXCEPT ![t].pc = "check", ![t].calls = @ + 1]
    /\ UNCHANGED <<LOG_GUARD, global_default, text, npieces, pc, splitter, yielded, last,
                   panicked, result, shape, AC>>

\* 22-28: if LOG_GUARD.lock()?.is_some() { return Ok(()) }; the lock is
\* released at the end of the condition
CheckGuard(t) ==
    /\ threads[t].pc = "check"
    /\ IF is_some(LOG_GUARD) THEN LogReturn(t, "Ok") ELSE LogStep(t, "build")
    /\ UNCHANGED <<LOG_GUARD, global_default>>

\* 29-63: the filter, the layers and the non-blocking writer with its guard
BuildSubscriber(t) ==
    /\ threads[t].pc = "build"
    /\ threads' = [threads EXCEPT ![t].pc = "set_global",
                                  ![t].guard = Some(<<t, threads[t].calls>>)]
    /\ UNCHANGED <<LOG_GUARD, global_default, text, npieces, pc, splitter, yielded, last,
                   panicked, result, shape, AC>>

\* 65-66: tracing::subscriber::set_global_default(subscriber).map_err(..)?:
\* an error once a global default is set
SetGlobalDefault(t) ==
    /\ threads[t].pc = "set_global"
    /\ IF is_some(global_default)
       THEN LogReturn(t, "Err(LogError::Init)") /\ UNCHANGED global_default
       ELSE LogStep(t, "store") /\ global_default' = threads[t].guard
    /\ UNCHANGED LOG_GUARD

\* 68-73: *LOG_GUARD.lock()? = Some(guard); Ok(())
StoreGuard(t) ==
    /\ threads[t].pc = "store"
    /\ LOG_GUARD' = threads[t].guard
    /\ threads' = [threads EXCEPT ![t].pc = "idle", ![t].guard = None,
                                  ![t].rets = Append(@, "Ok")]
    /\ UNCHANGED <<global_default, text, npieces, pc, splitter, yielded, last,
                   panicked, result, shape, AC>>

NextLog ==
    \E t \in Threads :
        \/ CallInitLogging(t)
        \/ CheckGuard(t)
        \/ BuildSubscriber(t)
        \/ SetGlobalDefault(t)
        \/ StoreGuard(t)

SpecLog == InitLog /\ [][NextLog]_vars

---------------------------------------------------------------------------
(* What the claims speak of, stated on the buffer itself *)

\* the timestamp layout DDDD-DD-DD DD:DD:DD.DDD, position by position
TsLayout(s) ==
    /\ Len(s) = 23
    /\ \A i \in 0..22 :
        CASE i \in {4, 7}   -> At(s, i) = 45
          [] i = 10         -> At(s, i) = 32
          [] i \in {13, 16} -> At(s, i) = 58
          [] i = 19         -> At(s, i) = 46
          [] OTHER          -> At(s, i) \in 48..57

\* an anchor: a line start whose 23 bytes have the timestamp layout
IsAnchor(t, p) ==
    /\ p >= 0
    /\ p + 23 <= Len(t)
    /\ (p = 0 \/ At(t, p - 1) = 10)
    /\ TsLayout(Slice(t, p, p + 23))

Anchors(t) == {p \in 0..Len(t) : IsAnchor(t, p)}

SetMin(S) == CHOOSE x \in S : \A y \in S : x <= y

RECURSIVE ConcatSpans(_, _)
ConcatSpans(t, spans) ==
    IF spans = <<>> THEN <<>>
    ELSE span_text(t, Head(spans)) \o ConcatSpans(t, Tail(spans))

\* the leading-error text the scanner reports: empty when it reports none
LeadingText ==
    LET le == leading_errors_slice(text, splitter).slice
    IN IF is_some(le) THEN span_text(text, unwrap(le)) ELSE <<>>

ScanDone == pc = "iter" /\ splitter.finished

\* C1: when the scan of a buffer is over, the leading-error span followed by
\* the yielded spans, in order, is the buffer itself.
C1_SpansCoverBuffer ==
    ScanDone => LeadingText \o ConcatSpans(text, yielded) = text

\* C2: a buffer without an anchor yields no span and its whole text is
\* reported as the leading-error span.
C2_NoAnchorAllLeading ==
    (ScanDone /\ Anchors(text) = {}) => (yielded = <<>> /\ LeadingText = text)

\* C3: for a buffer with an anchor, the yielded spans start exactly at the
\* anchors: every yielded span starts at an anchor, with a timestamp, holds
\* no anchor inside, no two share a start, and when the scan is over there
\* are as many spans as anchors and every anchor starts one.
C3_SpansStartAtAnchors ==
    (pc = "iter" /\ Anchors(text) /= {}) =>
        /\ \A i \in 1..Len(yielded) :
            /\ IsAnchor(text, yielded[i].start)
            /\ Len(span_text(text, yielded[i])) >= 23
            /\ TsLayout(SubSeq(span_text(text, yielded[i]), 1, 23))
            /\ \A q \in Anchors(text) : ~(yielded[i].start < q /\ q < yielded[i].end)
            /\ \A j \in 1..Len(yielded) : i /= j => yielded[i].start /= yielded[j].start
        /\ splitter.finished =>
            /\ Len(yielded) = Cardinality(Anchors(text))
            /\ {yielded[i].start : i \in 1..Len(yielded)} = Anchors(text)

C3_Witness ==
    /\ ScanDone
    /\ Len(yielded) = 2
    /\ \E p \in 1..Len(text) :
        /\ p + 23 <= Len(text)
        /\ TsLayout(Slice(text, p, p + 23))
        /\ ~IsAnchor(text, p)

\* the lines of s, stated by the offsets of its "\n" bytes: line k runs from
\* after the (k-1)th "\n" to the kth, less one "\r" before the "\n"
NewlineOffsets(s) == {i \in 0..(Len(s) - 1) : At(s, i) = 10}

LineStarts(s) == {a \in {0} \cup {i + 1 : i \in NewlineOffsets(s)} : a < Len(s)}

LineAt(s, a) ==
    LET ends == {i \in NewlineOffsets(s) : i >= a}
        e == IF ends = {} THEN Len(s) ELSE SetMin(ends)
        cut == IF ends /= {} /\ e > a /\ At(s, e - 1) = 13 THEN e - 1 ELSE e
    IN Slice(s, a, cut)

RECURSIVE LinesInOrder(_, _)
LinesInOrder(s, starts) ==
    IF starts = {} THEN <<>>
    ELSE LET a == SetMin(starts) IN <<LineAt(s, a)>> \o LinesInOrder(s, starts \ {a})

TextBeforeFirstAnchor(t) == Slice(t, 0, SetMin(Anchors(t)))

\* C4: for a buffer with an anchor, the errors of split_by_ts_records_with_errors
\* and of split_into are the lines of the text before the first anchor, in order,
\* without their terminators: none when the buffer begins with an anchor.
C4_ErrorsAreLeadingLines ==
    (result.fn \in {"split_by_ts_records_with_errors", "split_into"} /\ Anchors(text) /= {}) =>
        LET before == TextBeforeFirstAnchor(text) IN
        /\ result.errors = LinesInOrder(before, LineStarts(before))
        /\ \A i \in 1..Len(result.errors) :
            \A k \in 1..Len(result.errors[i]) : result.errors[i][k] /= 10
        /\ (IsAnchor(text, 0) => result.errors = <<>>)

C4_Witness ==
    /\ result.fn = "split_into"
    /\ Len(result.errors) = 2
    /\ Len(result.records) = 1
    /\ \E i \in 0..(Len(text) - 2) : At(text, i) = 13 /\ At(text, i + 1) = 10

\* C7: no whole-buffer function and no step of the scanner fails, whatever
\* the buffer holds.
C7_WholeBufferPathTotal ==
    /\ ~panicked
    /\ (result.fn /= "none" => ~result.panic)

C7_Witness ==
    /\ result.fn = "parse_all"
    /\ Len(result.out) = 1
    /\ Anchors(text) = {1}
    /\ \E i \in 0..(Len(text) - 1) : At(text, i) >= 128
    /\ result.out[1].meta_raw = <<>>
    /\ find(result.out[1].body, <<40>>) /= None

\* C5: is_ts_millis and is_ts_millis_bytes accept exactly the 23-byte inputs
\* with the layout DDDD-DD-DD DD:DD:DD.DDD; nothing else is tested.
C5_TsMillisIsLayout ==
    result.fn \in {"is_ts_millis", "is_ts_millis_bytes"} =>
        (result.ok <=> TsLayout(text))

\* month 13 accepted
C5_Witness ==
    /\ result.fn = "is_ts_millis"
    /\ result.ok
    /\ At(text, 5) = 49
    /\ At(text, 6) = 51

\* the first offset of pat in s, -1 when it does not occur
FirstOccurrence(s, pat) ==
    LET S == {q \in 0..(Len(s) - Len(pat)) : Slice(s, q, q + Len(pat)) = pat}
    IN IF S = {} THEN -1 ELSE SetMin(S)

\* the text between the first '(' after the timestamp and the first ')' after it
MetaBlockOf(line) ==
    LET opens == {i \in 23..(Len(line) - 1) : At(line, i) = 40} IN
    IF opens = {} THEN None
    ELSE LET closes == {i \in (SetMin(opens) + 1)..(Len(line) - 1) : At(line, i) = 41} IN
         IF closes = {} THEN None
         ELSE Some(Slice(line, SetMin(opens) + 1, SetMin(closes)))

AcceptedLine(line) ==
    /\ Len(line) >= 23
    /\ TsLayout(Slice(line, 0, 23))
    /\ is_some(MetaBlockOf(line))
    /\ LET blk == unwrap(MetaBlockOf(line)) IN
        /\ \A k \in 1..7 : FirstOccurrence(blk, PATTERNS[k]) >= 0
        /\ \A k \in 1..6 : FirstOccurrence(blk, PATTERNS[k]) < FirstOccurrence(blk, PATTERNS[k + 1])

MarkersInOrder == \A i \in 1..Len(shape.tokens) : shape.tokens[i] = i

\* C6: is_record_start accepts exactly the lines that begin with a timestamp
\* followed by a parenthesized block in which all seven markers occur with
\* strictly increasing first offsets.  So the seven in order are accepted, also
\* with other text between them; every other order of the seven, a missing
\* marker, markers outside the block, a missing block or ')' and a space
\* before the timestamp are rejected.
C6_RecordStartIffOrdered ==
    result.fn = "is_record_start" =>
        /\ ~result.panic
        /\ result.ok <=> AcceptedLine(text)
        /\ (/\ shape.variant = "ok"
            /\ Len(shape.tokens) = 7
            /\ MarkersInOrder
            /\ "appname_first" \notin shape.extras) => result.ok
        /\ (Len(shape.tokens) = 7 /\ ~MarkersInOrder) => ~result.ok
        /\ (Len(shape.tokens) < 7 /\ shape.extras \subseteq {"filler"}) => ~result.ok
        /\ shape.variant /= "ok" => ~result.ok

C6_Witness ==
    /\ result.fn = "is_record_start"
    /\ result.ok
    /\ "filler" \in shape.extras

\* C8: parse_record returns a ParsedRecord for every text.
C8_ParseRecordNeverFails ==
    result.fn = "parse_record" => ~result.panic

\* the counter value a digit run stands for: its digits without leading zeros
RECURSIVE StripLeadingZeros(_)
StripLeadingZeros(d) ==
    IF Len(d) > 1 /\ d[1] = 0 THEN StripLeadingZeros(Tail(d)) ELSE d

ValueOfSeg(seg) == StripLeadingZeros(Values[seg.value].digits)

SegLabels == [i \in 1..Len(shape.segs) |-> shape.segs[i].label]

EndsWith(s, suffix) ==
    Len(s) >= Len(suffix) /\ SubSeq(s, Len(s) - Len(suffix) + 1, Len(s)) = suffix

\* parse_record returned, and the body it found holds the segments whole
ParsedBodyHoldsSegs ==
    /\ result.fn = "parse_record"
    /\ ~result.panic
    /\ EndsWith(result.body, RenderSegs(shape.segs, 1))

\* the field the counter with label number l is returned in
CounterField(l) ==
    CASE l = 1 -> result.execute_time_ms
      [] l = 2 -> result.row_count
      [] l = 3 -> result.execute_id

\* C9: a body with EXECTIME:, ROWCOUNT: and EXEC_ID: once each, in that
\* order, each followed by optional non-digits and its digits, gives the
\* three counters the values of their digit runs.
C9_CountersInOrder ==
    (ParsedBodyHoldsSegs /\ SegLabels = <<1, 2, 3>>) =>
        /\ result.execute_time_ms = Some(ValueOfSeg(shape.segs[1]))
        /\ result.row_count = Some(ValueOfSeg(shape.segs[2]))
        /\ result.execute_id = Some(ValueOfSeg(shape.segs[3]))

\* the body "EXECTIME: 0ms ROWCOUNT: 1 EXEC_ID: 289655185" gives 0, 1 and 289655185
C9_Witness ==
    /\ result.fn = "parse_record"
    /\ ~result.panic
    /\ result.body = RenderSegs(<<[label |-> 1, value |-> 1], [label |-> 2, value |-> 2],
                                  [label |-> 3, value |-> 3]>>, 1)
    /\ result.execute_time_ms = Some(<<0>>)
    /\ result.row_count = Some(<<1>>)
    /\ result.execute_id = Some(<<2, 8, 9, 6, 5, 5, 1, 8, 5>>)

\* C10: whatever the order of the markers and whichever of them are in the
\* body, once each with their digits, a marker that is there gives its field
\* the value of its digit run and a marker that is not leaves it absent.
C10_CountersAnyOrder ==
    (/\ ParsedBodyHoldsSegs
     /\ \A i, j \in 1..Len(shape.segs) : i /= j => shape.segs[i].label /= shape.segs[j].label) =>
        \A l \in 1..3 :
            IF \E i \in 1..Len(shape.segs) : shape.segs[i].label = l
            THEN \A i \in 1..Len(shape.segs) :
                    shape.segs[i].label = l => CounterField(l) = Some(ValueOfSeg(shape.segs[i]))
            ELSE CounterField(l) = None

\* a decimal digit run stands for more than another one (both without leading zeros)
RECURSIVE DecimalGreater(_, _)
DecimalGreater(a, b) ==
    IF Len(a) /= Len(b) THEN Len(a) > Len(b)
    ELSE IF a = <<>> THEN FALSE
    ELSE IF Head(a) /= Head(b) THEN Head(a) > Head(b)
    ELSE DecimalGreater(Tail(a), Tail(b))

\* min(decimal value of the run, 2^64 - 1), as digits
ClampedValue(digits) ==
    LET v == StripLeadingZeros(digits) IN
    IF DecimalGreater(v, <<1,8,4,4,6,7,4,4,0,7,3,7,0,9,5,5,1,6,1,5>>)
    THEN <<1,8,4,4,6,7,4,4,0,7,3,7,0,9,5,5,1,6,1,5>>
    ELSE v

\* C11: the counter after a label is min(value of its maximal digit run,
\* 2^64 - 1): a run above the 64-bit range gives a present field holding
\* 2^64 - 1, never another value, an absent field or a panic; a label with no
\* digit after it leaves the field absent.
C11_CountersSaturate ==
    (result.fn = "parse_record" /\ DOMAIN shape = {"label", "gap", "prefix", "tail"}) =>
        /\ ~result.panic
        /\ CounterField(shape.label) =
              IF RunDigits(shape) = <<>> THEN None ELSE Some(ClampedValue(RunDigits(shape)))
        /\ \A l \in 1..3 : l /= shape.label => CounterField(l) = None

\* a run of 21 digits, above the 64-bit range, gave 2^64 - 1
C11_Witness ==
    /\ result.fn = "parse_record"
    /\ DOMAIN shape = {"label", "gap", "prefix", "tail"}
    /\ Len(RunDigits(shape)) = 21
    /\ ~result.panic
    /\ CounterField(shape.label) = Some(<<1,8,4,4,6,7,4,4,0,7,3,7,0,9,5,5,1,6,1,5>>)

\* parse_record returned for a record of SpecMeta
ParsedMeta == result.fn = "parse_record" /\ DOMAIN shape = {"base", "toks"}

\* what <addr> may be in a token read as 'ip:::<addr>' or as 'ip:::ffff:<addr>'
AddrReadings(tok) ==
    (IF starts_with(tok, IP) THEN {Slice(tok, Len(IP), Len(tok))} ELSE {})
    \cup (IF starts_with(tok, IP \o FFFF) THEN {Slice(tok, Len(IP \o FFFF), Len(tok))} ELSE {})

\* the readings in which <addr> does not itself begin with one of the prefixes
PlainAddrReadings(tok) ==
    {a \in AddrReadings(tok) : ~starts_with(a, IP) /\ ~starts_with(a, FFFF)}

AppnameTokens(w) == {i \in 1..Len(w) : starts_with(w[i], APPNAME)}

AppnameAbsentIffNoToken(w) == (result.appname = None) <=> (AppnameTokens(w) = {})

\* C12 as stated: any standalone 'appname:' token with an 'ip:::[ffff:]<addr>'
\* token right after it gives clientIp = <addr> and appName present and empty;
\* appName is absent exactly when no token begins with 'appname:'.
C12_AppnameThenIp ==
    ParsedMeta =>
        LET w == ShapeTokens(shape) IN
        /\ ~result.panic
        /\ \A i \in 1..(Len(w) - 1) :
            (w[i] = APPNAME /\ starts_with(w[i + 1], IP)) =>
                /\ \E a \in AddrReadings(w[i + 1]) : result.ip = Some(a)
                /\ result.appname = Some(<<>>)
        /\ AppnameAbsentIffNoToken(w)

\* the k-th anchor of the buffer, counted from 1 in increasing offset order
NthAnchor(t, k) == CHOOSE a \in Anchors(t) : Cardinality({b \in Anchors(t) : b < a}) = k - 1

\* the record spans of a buffer: from each anchor to the next one, the last to the end
ExpectedSpans(t) ==
    LET n == Cardinality(Anchors(t)) IN
    [k \in 1..n |-> [start |-> NthAnchor(t, k),
                     end   |-> IF k < n THEN NthAnchor(t, k + 1) ELSE Len(t)]]

\* C13: every output mode delivers the record spans of the buffer, in order
\* and once each: the two collecting functions in records (whatever the
\* containers held before), for_each_record as its callback's arguments; and
\* parse_all, parse_into and parse_records_with deliver parse_record of each
\* of those spans, in that order.
C13_OutputModesAgree ==
    LET spans == ExpectedSpans(text)
        parsed == [i \in 1..Len(spans) |-> parse_record(span_text(text, spans[i]))]
    IN /\ result.fn \in {"split_by_ts_records_with_errors", "split_into"} =>
            ~result.panic /\ result.records = spans
       /\ result.fn = "for_each_record" => ~result.panic /\ result.calls = spans
       /\ result.fn \in {"parse_all", "parse_into"} => ~result.panic /\ result.out = parsed
       /\ result.fn = "parse_records_with" => ~result.panic /\ result.calls = parsed

\* parse_into filled its container with the two records of a two-record buffer
C13_Witness ==
    /\ result.fn = "parse_into"
    /\ Cardinality(Anchors(text)) = 2
    /\ Len(result.out) = 2
    /\ result.out[1].ts = TsA
    /\ result.out[2].body /= <<>>

\* the threads that have built an automaton
Builders == {t \in Threads : is_some(threads[t].built)}

\* C14: whatever the interleaving of the first calls, one automaton at most
\* is built and kept; a caller reads the automaton only when the cell is
\* COMPLETE, it is never the empty slot, every caller reads the same one, the
\* one in the slot; and the slot, once filled, never changes.
C14_InitialisedOnce ==
    /\ [](/\ Cardinality(Builders) <= 1
          /\ \A t \in Threads :
                /\ threads[t].pc = "deref" => (AC.state = "COMPLETE" /\ is_some(AC.value))
                /\ is_some(threads[t].seen) =>
                      /\ is_some(unwrap(threads[t].seen))
                      /\ unwrap(threads[t].seen) = AC.value
          /\ is_some(AC.value) => \E t \in Builders : AC.value = threads[t].built)
    /\ [][is_some(AC.value) => AC'.value = AC.value]_vars

\* two threads raced for the first use: one built, the other waited, both read
C14_Witness ==
    /\ \A t \in Threads : is_some(threads[t].seen)
    /\ Cardinality(Builders) = 1
    /\ \E t \in Threads : threads[t].calls = 1 /\ ~is_some(threads[t].built)

\* C15: each of endpoint, session, thread, user, transactionId, statement and
\* clientIp is absent or present with a non-empty value; a record whose only
\* session token is the bare 'sess:' has no session.
C15_TextFieldsNonEmpty ==
    (ParsedMeta /\ ~result.panic) =>
        /\ \A f \in {result.ep, result.sess, result.thrd, result.user, result.trxid,
                     result.stmt, result.ip} : is_some(f) => unwrap(f) /= <<>>
        /\ LET w == ShapeTokens(shape) IN
            (\A i \in 1..Len(w) : starts_with(w[i], SESS) => w[i] = SESS) => result.sess = None

\* the scanner's state: AwaitingFirstAnchor (1), Emitting (2), Finished (3)
ScannerState(self) ==
    IF self.finished THEN 3 ELSE IF is_some(self.next_start) THEN 2 ELSE 1

\* a step in which next() is called on the scanner
NextCalled == pc = "iter" /\ pc' = "iter"

\* C16: the spans come back to back in increasing offset order: the first
\* starts at the first anchor, none is empty, each later one starts where the
\* one before ended (the anchor q found, after which start = q and the cursor
\* is q + 1), and the last one ends at the end of the buffer.
C16_SpansBackToBack ==
    pc = "iter" =>
        /\ yielded /= <<>> => yielded[1].start = SetMin(Anchors(text))
        /\ \A i \in 1..Len(yielded) : yielded[i].start < yielded[i].end
        /\ \A i \in 2..Len(yielded) :
            /\ yielded[i].start = yielded[i - 1].end
            /\ yielded[i].start > yielded[i - 1].start
        /\ (yielded /= <<>> /\ ~splitter.finished) =>
            /\ splitter.next_start = Some(yielded[Len(yielded)].end)
            /\ splitter.scan_pos = yielded[Len(yielded)].end + 1
        /\ (yielded /= <<>> /\ splitter.finished) => yielded[Len(yielded)].end = Len(text)
        /\ (splitter.finished /\ Anchors(text) /= {}) => yielded /= <<>>

\* leading text, then two spans back to back, and the scan is over
C16_Witness ==
    /\ ScanDone
    /\ Len(yielded) = 2
    /\ yielded[1].end = yielded[2].start
    /\ yielded[2].end = Len(text)
    /\ yielded[1].start > 0

\* C17: the scanner only moves AwaitingFirstAnchor -> Emitting -> Finished.
\* A next() call finishes it exactly when it returns the span that ends at
\* the end of the buffer, or when there is no anchor; a next() call on a
\* finished scanner returns nothing and leaves every field as it was.
C17_StatesOnlyProgress ==
    [][NextCalled =>
        /\ ScannerState(splitter') >= ScannerState(splitter)
        /\ (ScannerState(splitter) = 2 /\ ScannerState(splitter') = 3) <=>
              (~splitter.finished /\ is_some(last') /\ unwrap(last').end = Len(text))
        /\ (ScannerState(splitter) = 1 /\ ScannerState(splitter') = 3) <=>
              (~splitter.finished /\ Anchors(text) = {})
        /\ splitter.finished =>
              (last' = None /\ splitter' = splitter /\ yielded' = yielded)]_vars

\* next() was called on a finished scanner that had emitted two spans
C17_Witness ==
    /\ ScanDone
    /\ Len(yielded) = 2
    /\ last = None

\* C18: scan_pos never decreases; the offsets a next() call tests lie at or
\* after the cursor it started with and, when it emits a span and goes on,
\* before the cursor it leaves; in Emitting, scan_pos is the start of the
\* current record plus one.
C18_CursorOnlyAdvances ==
    /\ []((pc = "iter" /\ ScannerState(splitter) = 2) =>
              splitter.scan_pos = unwrap(splitter.next_start) + 1)
    /\ [][(pc = "iter" /\ pc' = "iter") =>
            /\ splitter'.scan_pos >= splitter.scan_pos
            /\ \A p \in offsets_tested_by_next(text, splitter) :
                /\ p >= splitter.scan_pos
                /\ ScannerState(splitter') = 2 => p < splitter'.scan_pos]_vars

\* the cursor moved forward over tested offsets to a second anchor
C18_Witness ==
    /\ pc = "iter"
    /\ ScannerState(splitter) = 2
    /\ Len(yielded) = 1
    /\ splitter.scan_pos > 24
    /\ is_some(last)

\* parse_record returned or panicked for a record of SpecParse
ParseCalled == result.fn = "parse_record" /\ DOMAIN shape = {"head", "segs"}

\* the text after the first 23 bytes
AfterTs(rec) == SubSeq(rec, 24, Len(rec))

\* the 1-based offsets of a byte in a text
OffsetsOf(s, byte) == {i \in 1..Len(s) : s[i] = byte}

\* a text without its leading whitespace characters
RECURSIVE WithoutLeadingWhitespace(_)
WithoutLeadingWhitespace(s) ==
    IF s /= <<>> /\ ws_len(s, 0) > 0
    THEN WithoutLeadingWhitespace(SubSeq(s, ws_len(s, 0) + 1, Len(s)))
    ELSE s

\* C19: for a record of at least 23 bytes: without '(' after the timestamp
\* metadataRaw is empty and body is all that follows the timestamp; with '('
\* and a later ')', metadataRaw is the text between the first '(' and the
\* first ')' after it, without ')', and body is what follows that ')' without
\* its leading whitespace.
C19_MetaBodySplit ==
    (ParseCalled /\ Len(text) >= 23) =>
        /\ ~result.panic
        /\ LET rest == AfterTs(text)
               opens == OffsetsOf(rest, 40)
           IN IF opens = {}
              THEN result.meta_raw = <<>> /\ result.body = rest
              ELSE LET o == SetMin(opens)
                       closes == {c \in OffsetsOf(rest, 41) : c > o}
                   IN closes /= {} =>
                        /\ result.meta_raw = SubSeq(rest, o + 1, SetMin(closes) - 1)
                        /\ OffsetsOf(result.meta_raw, 41) = {}
                        /\ result.body =
                             WithoutLeadingWhitespace(SubSeq(rest, SetMin(closes) + 1, Len(rest)))

\* C20: with '(' after the timestamp and no ')' after it, the metadata is
\* empty, every metadata field is absent, and body is what follows that '('.
C20_NoCloseParenBody ==
    (ParseCalled /\ Len(text) >= 23 /\ ~result.panic) =>
        LET rest == AfterTs(text)
            opens == OffsetsOf(rest, 40)
        IN (opens /= {} /\ {c \in OffsetsOf(rest, 41) : c > SetMin(opens)} = {}) =>
              /\ result.meta_raw = <<>>
              /\ \A f \in {result.ep, result.sess, result.thrd, result.user, result.trxid,
                           result.stmt, result.appname, result.ip} : f = None
              /\ result.body = SubSeq(rest, SetMin(opens) + 1, Len(rest))

\* C21: the body of every record parse_record returns has no leading
\* whitespace: its first character, if there is one, is not whitespace,
\* whether or not the record has '(' and ')'.
C21_BodyNoLeadingWhitespace ==
    (ParseCalled /\ ~result.panic) =>
        (result.body = <<>> \/ ws_len(result.body, 0) = 0)

\* the metadata tokens that start with a prefix, by position
TokensWith(w, prefix) == {i \in 1..Len(w) : starts_with(w[i], prefix)}

SetMax(S) == CHOOSE x \in S : \A y \in S : y <= x

\* the field a prefix token sets, by the prefix
PrefixField(prefix) ==
    IF prefix = EP THEN result.ep
    ELSE IF prefix = SESS THEN result.sess
    ELSE IF prefix = THRD THEN result.thrd
    ELSE IF prefix = USER THEN result.user
    ELSE IF prefix = TRXID THEN result.trxid
    ELSE result.stmt

\* C22: a metadata token that starts with one of EP[, sess:, thrd:, user:,
\* trxid:, stmt: sets its field to the token without exactly that prefix
\* (the last such token, when there are several; no standalone 'appname:'
\* is there to take a token as its value); endpoint for 'EP[0]' is '0]'.
C22_PrefixStripped ==
    (ParsedMeta /\ ~result.panic) =>
        LET w == ShapeTokens(shape) IN
        (\A i \in 1..Len(w) : w[i] /= APPNAME) =>
            \A prefix \in {EP, SESS, THRD, USER, TRXID, STMT} :
                TokensWith(w, prefix) /= {} =>
                    LET tok == w[SetMax(TokensWith(w, prefix))]
                    IN PrefixField(prefix) = Some(SubSeq(tok, Len(prefix) + 1, Len(tok)))

\* an IP token without its one leading 'ip:::' and then without one leading
\* 'ffff:', when it has one
StrippedOnce(tok) ==
    LET R == SubSeq(tok, Len(IP) + 1, Len(tok))
    IN IF starts_with(R, FFFF) THEN SubSeq(R, Len(FFFF) + 1, Len(R)) ELSE R

\* C23: for an IP token 'ip:::' + R read after the record's only 'appname:'
\* token, clientIp is R, or R without its first five characters when R starts
\* with 'ffff:' -- also when what is left begins with 'ffff:' or 'ip:::' again.
C23_IpStrippedOnce ==
    (ParsedMeta /\ ~result.panic) =>
        LET w == ShapeTokens(shape) IN
        \A i \in 1..(Len(w) - 1) :
            (AppnameTokens(w) = {i} /\ w[i] = APPNAME /\ starts_with(w[i + 1], IP)) =>
                result.ip = Some(StrippedOnce(w[i + 1]))

\* C24: when the record's only appname token, standalone or with an attached
\* name, is directly followed by a token 'ip:::[ffff:]<address>', clientIp is
\* present and equals <address> (an address that does not itself begin with
\* 'ip:::' or 'ffff:').
C24_IpAfterAnyAppname ==
    (ParsedMeta /\ ~result.panic) =>
        LET w == ShapeTokens(shape) IN
        \A i \in 1..(Len(w) - 1) :
            (AppnameTokens(w) = {i} /\ PlainAddrReadings(w[i + 1]) /= {}) =>
                \A a \in PlainAddrReadings(w[i + 1]) : result.ip = Some(a)

\* parse_record returned for a record of SpecWin
ParsedWin == result.fn = "parse_record" /\ DOMAIN shape = {"wsegs"}

\* the segments of a record of SpecWin that carry a label, before a limit
WinSegsWith(l, limit) == {i \in 1..Len(shape.wsegs) : i < limit /\ shape.wsegs[i].label = l}

\* the segment whose label the tail-anchored search matches, 0 when none:
\* the last EXEC_ID:, the last ROWCOUNT: before it, the last EXECTIME: before
\* the label matched last
MatchedExecId == IF WinSegsWith(3, MaxWin + 2) = {} THEN 0 ELSE SetMax(WinSegsWith(3, MaxWin + 2))

WindowOfRowcount == IF MatchedExecId = 0 THEN Len(shape.wsegs) + 1 ELSE MatchedExecId

MatchedRowcount ==
    IF WinSegsWith(2, WindowOfRowcount) = {} THEN 0 ELSE SetMax(WinSegsWith(2, WindowOfRowcount))

WindowOfExectime == IF MatchedRowcount = 0 THEN WindowOfRowcount ELSE MatchedRowcount

MatchedExectime ==
    IF WinSegsWith(1, WindowOfExectime) = {} THEN 0 ELSE SetMax(WinSegsWith(1, WindowOfExectime))

\* the value of the first digit run between a matched label and the end of
\* its window, absent when the label is not matched or no digit is there
DigitsInWindow(matched, window) ==
    LET K == {k \in matched..(window - 1) : matched > 0 /\ WinDigits[shape.wsegs[k].digits] /= <<>>}
    IN IF K = {} THEN None ELSE Some(WinDigits[shape.wsegs[SetMin(K)].digits])

\* C25: each counter takes its digits from its own window only: ROWCOUNT from
\* before the matched EXEC_ID: label, EXECTIME from before the matched
\* ROWCOUNT: (or EXEC_ID:) label; a label with no digit before the next
\* matched label leaves its field absent.
C25_DigitsFromOwnWindow ==
    (ParsedWin /\ ~result.panic) =>
        /\ result.execute_id = DigitsInWindow(MatchedExecId, Len(shape.wsegs) + 1)
        /\ result.row_count = DigitsInWindow(MatchedRowcount, WindowOfRowcount)
        /\ result.execute_time_ms = DigitsInWindow(MatchedExectime, WindowOfExectime)

\* the segments of a record of SpecParse that carry a label, before a limit
SegsWith(l, limit) == {i \in 1..Len(shape.segs) : i < limit /\ shape.segs[i].label = l}

\* the last segment with a label before a limit, 0 when there is none
LastSegWith(l, limit) == IF SegsWith(l, limit) = {} THEN 0 ELSE SetMax(SegsWith(l, limit))

\* the occurrence that wins for each label: the last EXEC_ID:, the last
\* ROWCOUNT: before it (the last of all without EXEC_ID:), the last EXECTIME:
\* before the label matched last
WinningExecId == LastSegWith(3, MaxSegs + 2)

WinningRowcount == LastSegWith(2, IF WinningExecId = 0 THEN MaxSegs + 2 ELSE WinningExecId)

WinningExectime ==
    LastSegWith(1, IF WinningRowcount /= 0 THEN WinningRowcount
                   ELSE IF WinningExecId /= 0 THEN WinningExecId ELSE MaxSegs + 2)

\* C26: with labels that repeat, each counter has the value that follows the
\* winning occurrence of its label -- the nearest one before the label
\* matched last -- and never the value of an earlier occurrence.
C26_NearestOccurrenceWins ==
    ParsedBodyHoldsSegs =>
        /\ WinningExecId /= 0 => result.execute_id = Some(ValueOfSeg(shape.segs[WinningExecId]))
        /\ WinningRowcount /= 0 => result.row_count = Some(ValueOfSeg(shape.segs[WinningRowcount]))
        /\ WinningExectime /= 0 =>
              result.execute_time_ms = Some(ValueOfSeg(shape.segs[WinningExectime]))

\* "ROWCOUNT: 0 ROWCOUNT: 1 EXEC_ID: 289655185" after a well-formed head gave
\* row_count 1, the value of the second ROWCOUNT:
C26_Witness ==
    /\ ParsedBodyHoldsSegs
    /\ shape = [head |-> 1, segs |-> <<[label |-> 2, value |-> 1], [label |-> 2, value |-> 2],
                                       [label |-> 3, value |-> 3]>>]
    /\ result.row_count = Some(<<1>>)
    /\ result.execute_id = Some(<<2, 8, 9, 6, 5, 5, 1, 8, 5>>)

\* what the calls of init_logging returned so far, over all threads
LogReturns == UNION {{threads[t].rets[i] : i \in 1..Len(threads[t].rets)} : t \in Threads}

\* C27: whatever the interleaving of the calls of init_logging, every call
\* returns Ok(()), none Err(LogError::Init), and a guard that is stored is
\* the guard of the one subscriber that was installed.
C27_InitLoggingOnce ==
    (pc = "logging") =>
        /\ LogReturns \subseteq {"Ok"}
        /\ is_some(LOG_GUARD) => LOG_GUARD = global_default

\* C28: is_record_start returns true or false for every line and never
\* panics, also when offset 23 of the line is inside a multi-byte character
\* or such characters are in or around the parenthesized block.
C28_IsRecordStartNeverPanics ==
    (result.fn = "is_record_start" /\ DOMAIN shape = {"lpieces"}) => ~result.panic

\* C29: iterating a RecordSplitter terminates: on a buffer with k anchors
\* next() returns the k spans of the buffer, one per call and in order, then
\* None with the scanner Finished, and a consumer that goes on calling gets
\* there; what was returned after j calls is the first j spans; the
\* collecting functions return exactly k spans.
C29_IterationTerminates ==
    /\ [][NextCalled =>
            LET spans == ExpectedSpans(text)
                j == Len(yielded)
            IN /\ ~panicked'
               /\ IF j < Len(spans)
                  THEN last' = Some(spans[j + 1]) /\ yielded' = Append(yielded, spans[j + 1])
                  ELSE last' = None /\ yielded' = yielded /\ splitter'.finished]_vars
    /\ [](pc = "iter" =>
            /\ Len(yielded) <= Cardinality(Anchors(text))
            /\ yielded = SubSeq(ExpectedSpans(text), 1, Len(yielded)))
    /\ [](result.fn = "split_by_ts_records_with_errors" =>
            Len(result.records) = Cardinality(Anchors(text)))
    /\ [](result.fn = "parse_all" => Len(result.out) = Cardinality(Anchors(text)))
    /\ (pc = "iter") ~> (splitter.finished /\ last = None)

\* both spans of a buffer with two anchors were returned, then None
C29_Witness ==
    /\ pc = "iter"
    /\ Cardinality(Anchors(text)) = 2
    /\ yielded = ExpectedSpans(text)
    /\ splitter.finished
    /\ last = None

====
